---- MODULE Spec2Model ----
(***************************************************************************)
(* Model of sage-setup's installation engine (src/src/sage_dev):           *)
(* installer.py (count_files, backup_existing_files, copy_files,           *)
(* install_to_agent), detection.py, config.py and the driver cli.py:main.  *)
(* The filesystem (source tree, per-agent target directories, backups,     *)
(* the settings file) is the state; every step of install_to_agent that    *)
(* touches the filesystem is one action.                                   *)
(***************************************************************************)
EXTENDS Integers, Sequences, FiniteSets, TLC

\* ------------------------------------------------------------------ bounds
\* *.md file names 1..MaxStem exist next to one non-matching name (1.txt)
MaxStem == 2
\* file contents are 1..MaxContent
MaxContent == 2
\* the clock (second resolution) runs 1..MaxClock
MaxClock == 2
\* number of invocations of the CLI in one behaviour
MaxRuns == 2

\* ------------------------------------------------------------- constants
SUPPORTED_LANGUAGES == <<"python", "javascript", "typescript">>
AGENT_DIRS == <<"claude-code", "opencode", "droid">>

Languages == {SUPPORTED_LANGUAGES[i] : i \in DOMAIN SUPPORTED_LANGUAGES}
Agents == {AGENT_DIRS[i] : i \in DOMAIN AGENT_DIRS}
Categories == {"commands", "agents", "rules"}

\* ------------------------------------------------------------ filesystem
Names == [stem : 1..MaxStem, ext : {"md"}] \cup {[stem |-> 1, ext |-> "txt"]}
Contents == 1..MaxContent

Absent == [kind |-> "none", data |-> 0]
File(c) == [kind |-> "file", data |-> c]
\* a subdirectory; data is the content of its child carrying the directory's
\* own name (0: no such child), the only child a copy can touch
SubDir(d) == [kind |-> "dir", data |-> d]

Entries == {Absent} \cup {File(c) : c \in Contents} \cup {SubDir(d) : d \in 0..MaxContent}

EmptyListing == [n \in Names |-> Absent]
NoDir == [exists |-> FALSE, ent |-> EmptyListing]
EmptyDir == [exists |-> TRUE, ent |-> EmptyListing]
MkDir(ent) == [exists |-> TRUE, ent |-> ent]

Present(d) == {n \in Names : d.ent[n] # Absent}

\* pathlib glob("*.md"): every entry (file or directory) whose name ends in .md
Glob(d) == {n \in Present(d) : n.ext = "md"}
IsFile(d, n) == d.ent[n].kind = "file"

\* ---------------------------------------------------------------- config.py
\* what .sage/config.json holds: no file, bytes that are no UTF-8 text, text
\* that is no JSON, a JSON value that is no object, an object
ConfigKinds == {"missing", "undecodable", "malformed", "nonobject", "object"}
NoConfigFile == [kind |-> "missing", language |-> "", agent |-> ""]
\* an object without the key has language "" (agent "" likewise)
ConfigObject(l, a) == [kind |-> "object", language |-> l, agent |-> a]

\* load_config: None, a Config, or an exception that leaves the function
load_config(file) ==
  CASE file.kind = "missing" -> [raised |-> FALSE, config |-> FALSE, language |-> ""]
    [] file.kind = "malformed" -> [raised |-> FALSE, config |-> FALSE, language |-> ""]
    [] file.kind = "undecodable" -> [raised |-> TRUE, config |-> FALSE, language |-> ""]
    [] file.kind = "nonobject" -> [raised |-> TRUE, config |-> FALSE, language |-> ""]
    [] file.kind = "object" /\ file.language = "" ->
         [raised |-> FALSE, config |-> FALSE, language |-> ""]
    [] OTHER -> [raised |-> FALSE, config |-> TRUE, language |-> file.language]

\* save_config writes Config(language, agent).to_dict() as JSON
save_config(language, agent) == ConfigObject(language, agent)

\* ------------------------------------------------------------- detection.py
RECURSIVE DetectFrom(_, _)
DetectFrom(t, i) ==
  IF i > Len(AGENT_DIRS) THEN <<>>
  ELSE (IF t[AGENT_DIRS[i]].root # "missing" THEN <<AGENT_DIRS[i]>> ELSE <<>>)
       \o DetectFrom(t, i + 1)

\* detect_installed_agents: the agents whose parent directory exists
detect_installed_agents(t) == DetectFrom(t, 1)

validate_agent(a) == a \in Agents

\* ------------------------------------------------------------- installer.py
\* agents_dir / language: the source tree holds a directory for supported
\* languages at most
LangAgentDir(s, language) ==
  IF language \in Languages THEN s.lang[language] ELSE NoDir

\* count_files(language) on the source tree s
count_files(s, language) ==
  LET command_count == IF s.commands.exists THEN Cardinality(Glob(s.commands)) ELSE 0
      shared_agent_count == IF s.shared.exists THEN Cardinality(Glob(s.shared)) ELSE 0
      lang_agent_count ==
        IF LangAgentDir(s, language).exists
        THEN Cardinality(Glob(LangAgentDir(s, language))) ELSE 0
      rule_count == IF s.rules.exists THEN Cardinality(Glob(s.rules)) ELSE 0
  IN [commands |-> command_count, shared |-> shared_agent_count,
      lang |-> lang_agent_count, rules |-> rule_count]

\* Path.mkdir(parents=True, exist_ok=True) of one directory below an agent's
\* root: an existing directory is left alone, a read-only root refuses
MkdirP(root, d) ==
  IF d.exists THEN [raised |-> FALSE, root |-> root, dir |-> d]
  ELSE IF root = "ro" THEN [raised |-> TRUE, root |-> root, dir |-> d]
  ELSE [raised |-> FALSE, root |-> "rw", dir |-> EmptyDir]

\* shutil.copy2(file, target_dir / file.name): a directory of that name at the
\* target receives the file as its child
Copy2(c, old) ==
  IF old.kind = "dir" THEN SubDir(c) ELSE File(c)

\* the files the loop of copy_files copies
Copied(source_dir) == {n \in Glob(source_dir) : IsFile(source_dir, n)}

\* mutation: a file whose name is taken by a directory at the target is an error
copy_files_refusing(source_dir, root, target_dir) ==
  IF ~source_dir.exists
  THEN [raised |-> FALSE, root |-> root, dir |-> target_dir, count |-> 0]
  ELSE LET m == MkdirP(root, target_dir) IN
       IF m.raised \/ \E n \in Copied(source_dir) : m.dir.ent[n].kind = "dir"
       THEN [raised |-> TRUE, root |-> root, dir |-> target_dir, count |-> 0]
       ELSE [raised |-> FALSE, root |-> m.root,
             dir |-> MkDir([n \in Names |->
                       IF n \in Copied(source_dir)
                       THEN Copy2(source_dir.ent[n].data, m.dir.ent[n])
                       ELSE m.dir.ent[n]]),
             count |-> Cardinality(Copied(source_dir))]

\* mutation: the target is made a mirror of the source, what the source does
\* not hold is removed
copy_files_mirror(source_dir, root, target_dir) ==
  IF ~source_dir.exists
  THEN [raised |-> FALSE, root |-> root, dir |-> target_dir, count |-> 0]
  ELSE LET m == MkdirP(root, target_dir) IN
       IF m.raised
       THEN [raised |-> TRUE, root |-> root, dir |-> target_dir, count |-> 0]
       ELSE [raised |-> FALSE, root |-> m.root,
             dir |-> MkDir([n \in Names |->
                       IF n \in Copied(source_dir)
                       THEN Copy2(source_dir.ent[n].data, m.dir.ent[n])
                       ELSE Absent]),
             count |-> Cardinality(Copied(source_dir))]

\* copy_files(source_dir, target_dir): the new target directory and the count
copy_files(source_dir, root, target_dir) ==
  IF ~source_dir.exists
  THEN [raised |-> FALSE, root |-> root, dir |-> target_dir, count |-> 0]
  ELSE LET m == MkdirP(root, target_dir) IN
       IF m.raised
       THEN [raised |-> TRUE, root |-> root, dir |-> target_dir, count |-> 0]
       ELSE [raised |-> FALSE, root |-> m.root,
             dir |-> MkDir([n \in Names |->
                       IF n \in Copied(source_dir)
                       THEN Copy2(source_dir.ent[n].data, m.dir.ent[n])
                       ELSE m.dir.ent[n]]),
             count |-> Cardinality(Copied(source_dir))]

\* mutation: the emptiness test inverted, a non-empty directory is not backed up
backup_existing_files_inverted(root, target_dir, backups, now) ==
  IF target_dir.exists /\ Present(target_dir) # {}
  THEN [raised |-> FALSE, backups |-> backups, backup |-> 0]
  ELSE [raised |-> TRUE, backups |-> backups, backup |-> 0]

\* mutation: the emptiness test left out, an empty directory is backed up too
backup_existing_files_unchecked(root, target_dir, backups, now) ==
  IF ~target_dir.exists
  THEN [raised |-> FALSE, backups |-> backups, backup |-> 0]
  ELSE IF backups[now].exists \/ root = "ro"
  THEN [raised |-> TRUE, backups |-> backups, backup |-> 0]
  ELSE [raised |-> FALSE, backups |-> [backups EXCEPT ![now] = target_dir],
        backup |-> now]

\* backup_existing_files(target_dir) at time now: backup is the timestamp of
\* the backup directory (0: None was returned); shutil.copytree refuses an
\* existing destination and a read-only parent
backup_existing_files(root, target_dir, backups, now) ==
  IF ~target_dir.exists \/ Present(target_dir) = {}
  THEN [raised |-> FALSE, backups |-> backups, backup |-> 0]
  ELSE IF backups[now].exists \/ root = "ro"
  THEN [raised |-> TRUE, backups |-> backups, backup |-> 0]
  ELSE [raised |-> FALSE, backups |-> [backups EXCEPT ![now] = target_dir],
        backup |-> now]

\* -------------------------------------------------------------------- state
VARIABLES
  src,         \* the source tree under Path.cwd(): commands, agents/shared,
               \* agents/<language>, rules, agents/index.json (0: absent)
  tgt,         \* per agent: its root, its three target directories, the
               \* index.json of the agents target, its commands.backup.<t>
  configFile,  \* .sage/config.json
  clock,       \* the time datetime.now() returned last, in seconds
  args,        \* the command line: --language, --agent ("" when not given)
  runs,        \* invocations of the CLI so far
  main,        \* cli.py main: position and locals
  inst,        \* install_to_agent: position and locals
  obs          \* observations for the properties: the target as it was when
               \* install_to_agent began, the commands target right before
               \* the command files were copied, the results returned so far,
               \* the results of the invocation before, the targets and the
               \* settings file at the start of the invocation

vars == <<src, tgt, configFile, clock, args, runs, main, inst, obs>>

NoPlan == [commands |-> 0, shared |-> 0, lang |-> 0, rules |-> 0]
MainStart ==
  [pc |-> "select_language", language |-> "", agent |-> "", detected |-> <<>>,
   plan |-> NoPlan, i |-> 1, installed |-> <<>>]
InstIdle ==
  [pc |-> "idle", agent |-> "", language |-> "", commands_installed |-> 0,
   agents_installed |-> 0, rules_installed |-> 0, errors |-> <<>>, backup |-> 0,
   warnings |-> {}, raisedIn |-> ""]
FreshTarget(root) ==
  [root |-> root, commands |-> NoDir, agents |-> NoDir, rules |-> NoDir,
   index |-> 0, backups |-> [t \in 1..MaxClock |-> NoDir]]
ObsStart == [pre |-> FreshTarget("missing"), atCopy |-> NoDir, results |-> <<>>]

\* the observations at the start of an invocation: the results of the
\* invocation before it, the targets and the settings file as it finds them
RunObs(prev, t, c) ==
  [pre |-> ObsStart.pre, atCopy |-> ObsStart.atCopy, results |-> ObsStart.results,
   prev |-> prev, tgt0 |-> t, cfg0 |-> c]

InstallationResult(c, a, r, success, errors) ==
  [commands_installed |-> c, agents_installed |-> a, rules_installed |-> r,
   success |-> success, errors |-> errors]

\* --------------------------------------------------------------- cli.py main
\* mutation: the language argument is not checked against SUPPORTED_LANGUAGES
SelectLanguage_unvalidated ==
  /\ main.pc = "select_language"
  /\ IF args.language # ""
     THEN main' = [main EXCEPT !.pc = "select_agent", !.language = args.language]
     ELSE LET config == load_config(configFile) IN
          IF config.raised THEN main' = [main EXCEPT !.pc = "crashed"]
          ELSE IF config.config
          THEN main' = [main EXCEPT !.pc = "select_agent", !.language = config.language]
          ELSE main' = [main EXCEPT !.pc = "select_agent", !.language = "python"]
  /\ UNCHANGED <<src, tgt, configFile, clock, args, runs, inst, obs>>

\* select_language (cli.py 39-58)
SelectLanguage ==
  /\ main.pc = "select_language"
  /\ IF args.language # ""
     THEN IF args.language \notin Languages
          THEN main' = [main EXCEPT !.pc = "exit1"]
          ELSE main' = [main EXCEPT !.pc = "select_agent", !.language = args.language]
     ELSE LET config == load_config(configFile) IN
          IF config.raised THEN main' = [main EXCEPT !.pc = "crashed"]
          ELSE IF config.config
          THEN main' = [main EXCEPT !.pc = "select_agent", !.language = config.language]
          ELSE main' = [main EXCEPT !.pc = "select_agent", !.language = "python"]
  /\ UNCHANGED <<src, tgt, configFile, clock, args, runs, inst, obs>>

\* select_agent (cli.py 61-92) and the check that follows it (170-172)
SelectAgent ==
  /\ main.pc = "select_agent"
  /\ IF args.agent # ""
     THEN IF args.agent # "all" /\ ~validate_agent(args.agent)
          THEN main' = [main EXCEPT !.pc = "exit1"]
          ELSE main' = [main EXCEPT !.pc = "count", !.agent = args.agent,
                          !.detected = IF args.agent = "all"
                                       THEN detect_installed_agents(tgt)
                                       ELSE <<args.agent>>]
     ELSE IF detect_installed_agents(tgt) = <<>>
          THEN main' = [main EXCEPT !.pc = "exit1"]
          ELSE main' = [main EXCEPT !.pc = "count", !.agent = "all",
                          !.detected = detect_installed_agents(tgt)]
  /\ UNCHANGED <<src, tgt, configFile, clock, args, runs, inst, obs>>

\* mutation: the commands are counted in the first target, not in the source
CountFiles_for_target ==
  /\ main.pc = "count"
  /\ main' = [main EXCEPT !.pc = "confirm",
                !.plan = [count_files(src, main.language) EXCEPT !.commands =
                            IF main.detected = <<>> THEN 0
                            ELSE Cardinality(Glob(tgt[main.detected[1]].commands))]]
  /\ UNCHANGED <<src, tgt, configFile, clock, args, runs, inst, obs>>

\* count_files for the installation plan (cli.py 174-189)
CountFiles ==
  /\ main.pc = "count"
  /\ main' = [main EXCEPT !.pc = "confirm", !.plan = count_files(src, main.language)]
  /\ UNCHANGED <<src, tgt, configFile, clock, args, runs, inst, obs>>

\* Confirm.ask (cli.py 191-199)
Confirm ==
  /\ main.pc = "confirm"
  /\ \E proceed \in BOOLEAN :
       main' = [main EXCEPT !.pc = IF proceed THEN "install" ELSE "exit0"]
  /\ UNCHANGED <<src, tgt, configFile, clock, args, runs, inst, obs>>

\* the targets of the loop (cli.py 203-210)
Selected == IF main.agent = "all" THEN main.detected ELSE <<main.agent>>

\* one call of install_to_agent (cli.py 206 / 210)
CallInstall ==
  /\ main.pc = "install"
  /\ main.i <= Len(Selected)
  /\ main' = [main EXCEPT !.pc = "installing"]
  /\ inst' = [InstIdle EXCEPT !.pc = "check_source", !.agent = Selected[main.i],
                              !.language = main.language]
  /\ obs' = [obs EXCEPT !.pre = tgt[Selected[main.i]], !.atCopy = NoDir]
  /\ UNCHANGED <<src, tgt, configFile, clock, args, runs>>

\* install_to_agent returned (cli.py 207)
AfterInstall ==
  /\ main.pc = "installing"
  /\ inst.pc = "returned"
  /\ main' = [main EXCEPT !.pc = "install", !.i = main.i + 1,
                !.installed = IF main.agent = "all"
                              THEN Append(main.installed, inst.agent)
                              ELSE main.installed]
  /\ inst' = [inst EXCEPT !.pc = "idle"]
  /\ UNCHANGED <<src, tgt, configFile, clock, args, runs, obs>>

\* save_config (cli.py 212-214)
SaveConfig ==
  /\ main.pc = "install"
  /\ main.i > Len(Selected)
  /\ configFile' = save_config(main.language, main.agent)
  /\ main' = [main EXCEPT !.pc = "summary"]
  /\ UNCHANGED <<src, tgt, clock, args, runs, inst, obs>>

\* show_installation_complete and what follows (cli.py 216-234):
\* AGENT_DIRS[installed_agents[0]] needs a first installed agent
Summary ==
  /\ main.pc = "summary"
  /\ IF main.agent = "all" /\ main.installed = <<>>
     THEN main' = [main EXCEPT !.pc = "crashed"]
     ELSE main' = [main EXCEPT !.pc = "done"]
  /\ UNCHANGED <<src, tgt, configFile, clock, args, runs, inst, obs>>

\* --------------------------------------------------- installer.py install_to_agent
\* an exception leaves install_to_agent and, uncaught in main, the program
Raise(step) ==
  /\ inst' = [inst EXCEPT !.pc = "raised", !.raisedIn = step]
  /\ main' = [main EXCEPT !.pc = "crashed"]

\* mutation: the error is recorded but the early return is missing
CheckSource_continues ==
  /\ inst.pc = "check_source"
  /\ IF ~src.commands.exists
     THEN inst' = [inst EXCEPT !.pc = "mkdir",
                     !.errors = Append(inst.errors, "Commands directory not found")]
     ELSE inst' = [inst EXCEPT !.pc = "mkdir"]
  /\ UNCHANGED <<src, tgt, configFile, clock, args, runs, main, obs>>

\* "Verify source directories exist" (installer.py 104-107)
CheckSource ==
  /\ inst.pc = "check_source"
  /\ IF ~src.commands.exists
     THEN /\ inst' = [inst EXCEPT !.pc = "returned",
                        !.errors = Append(inst.errors, "Commands directory not found")]
          /\ obs' = [obs EXCEPT !.results = Append(obs.results,
                       [agent |-> inst.agent,
                        result |-> InstallationResult(0, 0, 0, FALSE,
                                     Append(inst.errors, "Commands directory not found"))])]
     ELSE /\ inst' = [inst EXCEPT !.pc = "mkdir"]
          /\ obs' = obs
  /\ UNCHANGED <<src, tgt, configFile, clock, args, runs, main>>

\* "Create directories" (installer.py 114-119): three mkdir in order
CreateDirectories ==
  /\ inst.pc = "mkdir"
  /\ LET t == tgt[inst.agent]
         c == MkdirP(t.root, t.commands)
         a == MkdirP(c.root, t.agents)
         r == MkdirP(a.root, t.rules)
     IN IF c.raised \/ a.raised \/ r.raised
        THEN /\ Raise("mkdir")
             /\ tgt' = tgt
        ELSE /\ tgt' = [tgt EXCEPT ![inst.agent] =
                          [t EXCEPT !.root = r.root, !.commands = c.dir,
                                    !.agents = a.dir, !.rules = r.dir]]
             /\ inst' = [inst EXCEPT !.pc = "backup"]
             /\ main' = main
  /\ UNCHANGED <<src, configFile, clock, args, runs, obs>>

\* mutation: a failed backup is swallowed and the installation goes on
BackupExisting_swallowed ==
  /\ inst.pc = "backup"
  /\ \E now \in clock..MaxClock :
       LET t == tgt[inst.agent]
           b == backup_existing_files(t.root, t.commands, t.backups, now)
       IN /\ clock' = now
          /\ tgt' = [tgt EXCEPT ![inst.agent].backups = b.backups]
          /\ inst' = [inst EXCEPT !.pc = "copy_commands", !.backup = b.backup]
          /\ main' = main
  /\ UNCHANGED <<src, configFile, args, runs, obs>>

\* "Backup existing files" (installer.py 125-131); datetime.now() reads a
\* clock that has not gone back since it was last read
BackupExisting ==
  /\ inst.pc = "backup"
  /\ \E now \in clock..MaxClock :
       LET t == tgt[inst.agent]
           b == backup_existing_files(t.root, t.commands, t.backups, now)
       IN /\ clock' = now
          /\ IF b.raised
             THEN /\ Raise("backup")
                  /\ tgt' = tgt
             ELSE /\ tgt' = [tgt EXCEPT ![inst.agent].backups = b.backups]
                  /\ inst' = [inst EXCEPT !.pc = "copy_commands", !.backup = b.backup]
                  /\ main' = main
  /\ UNCHANGED <<src, configFile, args, runs, obs>>

\* "Copy command files" (installer.py 133-138)
CopyCommands ==
  /\ inst.pc = "copy_commands"
  /\ LET t == tgt[inst.agent]
         c == copy_files(src.commands, t.root, t.commands)
     IN IF c.raised
        THEN /\ Raise("copy_commands")
             /\ tgt' = tgt
        ELSE /\ tgt' = [tgt EXCEPT ![inst.agent].commands = c.dir,
                                   ![inst.agent].root = c.root]
             /\ inst' = [inst EXCEPT !.pc = "copy_shared", !.commands_installed = c.count]
             /\ main' = main
  /\ obs' = [obs EXCEPT !.atCopy = tgt[inst.agent].commands]
  /\ UNCHANGED <<src, configFile, clock, args, runs>>

\* "Copy shared agents" (installer.py 144-149)
CopySharedAgents ==
  /\ inst.pc = "copy_shared"
  /\ LET t == tgt[inst.agent]
         c == copy_files(src.shared, t.root, t.agents)
     IN IF ~src.shared.exists
        THEN /\ tgt' = tgt
             /\ inst' = [inst EXCEPT !.pc = "copy_lang"]
             /\ main' = main
        ELSE IF c.raised
        THEN /\ Raise("copy_shared")
             /\ tgt' = tgt
        ELSE /\ tgt' = [tgt EXCEPT ![inst.agent].agents = c.dir,
                                   ![inst.agent].root = c.root]
             /\ inst' = [inst EXCEPT !.pc = "copy_lang",
                           !.agents_installed = inst.agents_installed + c.count]
             /\ main' = main
  /\ UNCHANGED <<src, configFile, clock, args, runs, obs>>

\* "Copy language-specific agents" (installer.py 151-156)
CopyLanguageAgents ==
  /\ inst.pc = "copy_lang"
  /\ LET t == tgt[inst.agent]
         lang_agent_dir == LangAgentDir(src, inst.language)
         c == copy_files(lang_agent_dir, t.root, t.agents)
     IN IF ~lang_agent_dir.exists
        THEN /\ tgt' = tgt
             /\ inst' = [inst EXCEPT !.pc = "copy_registry"]
             /\ main' = main
        ELSE IF c.raised
        THEN /\ Raise("copy_lang")
             /\ tgt' = tgt
        ELSE /\ tgt' = [tgt EXCEPT ![inst.agent].agents = c.dir,
                                   ![inst.agent].root = c.root]
             /\ inst' = [inst EXCEPT !.pc = "copy_registry",
                           !.agents_installed = inst.agents_installed + c.count]
             /\ main' = main
  /\ UNCHANGED <<src, configFile, clock, args, runs, obs>>

\* mutation: the registry is counted as an installed agent
CopyRegistry_counted ==
  /\ inst.pc = "copy_registry"
  /\ IF src.index # 0
     THEN /\ tgt' = [tgt EXCEPT ![inst.agent].index = src.index]
          /\ inst' = [inst EXCEPT !.pc = "copy_rules",
                        !.agents_installed = inst.agents_installed + 1]
     ELSE /\ tgt' = tgt
          /\ inst' = [inst EXCEPT !.pc = "copy_rules"]
  /\ UNCHANGED <<src, configFile, clock, args, runs, main, obs>>

\* "Copy agent registry" (installer.py 158-162)
CopyRegistry ==
  /\ inst.pc = "copy_registry"
  /\ IF src.index # 0
     THEN tgt' = [tgt EXCEPT ![inst.agent].index = src.index]
     ELSE tgt' = tgt
  /\ inst' = [inst EXCEPT !.pc = "copy_rules"]
  /\ UNCHANGED <<src, configFile, clock, args, runs, main, obs>>

\* "Copy rule files" (installer.py 167-172)
CopyRules ==
  /\ inst.pc = "copy_rules"
  /\ LET t == tgt[inst.agent]
         c == copy_files(src.rules, t.root, t.rules)
     IN IF c.raised
        THEN /\ Raise("copy_rules")
             /\ tgt' = tgt
        ELSE /\ tgt' = [tgt EXCEPT ![inst.agent].rules = c.dir,
                                   ![inst.agent].root = c.root]
             /\ inst' = [inst EXCEPT !.pc = "verify", !.rules_installed = c.count]
             /\ main' = main
  /\ UNCHANGED <<src, configFile, clock, args, runs, obs>>

\* the categories "Verify installation" warns about (installer.py 174-191)
Mismatches(installed, plan) ==
  {k \in Categories :
     \/ k = "commands" /\ installed.commands_installed # plan.commands
     \/ k = "agents" /\ installed.agents_installed # plan.shared + plan.lang
     \/ k = "rules" /\ installed.rules_installed # plan.rules}

\* mutation: a count mismatch is recorded as an error
VerifyInstallation_strict ==
  /\ inst.pc = "verify"
  /\ LET w == Mismatches(inst, count_files(src, inst.language))
         e == IF w = {} THEN inst.errors ELSE Append(inst.errors, "count mismatch")
     IN /\ inst' = [inst EXCEPT !.pc = "returned", !.warnings = w, !.errors = e]
        /\ obs' = [obs EXCEPT !.results = Append(obs.results,
                     [agent |-> inst.agent,
                      result |-> InstallationResult(inst.commands_installed,
                                   inst.agents_installed, inst.rules_installed,
                                   Len(e) = 0, e)])]
  /\ UNCHANGED <<src, tgt, configFile, clock, args, runs, main>>

\* "Verify installation" and the return (installer.py 174-201)
VerifyInstallation ==
  /\ inst.pc = "verify"
  /\ inst' = [inst EXCEPT !.pc = "returned",
                !.warnings = Mismatches(inst, count_files(src, inst.language))]
  /\ obs' = [obs EXCEPT !.results = Append(obs.results,
               [agent |-> inst.agent,
                result |-> InstallationResult(inst.commands_installed,
                             inst.agents_installed, inst.rules_installed,
                             Len(inst.errors) = 0, inst.errors)])]
  /\ UNCHANGED <<src, tgt, configFile, clock, args, runs, main>>

\* the exit status of the process: sys.exit(1) and an uncaught exception give
\* 1, sys.exit(0) and the return from main give 0
ExitCode == IF main.pc \in {"exit1", "crashed"} THEN 1 ELSE 0

\* ------------------------------------------------------------- environment
Ended == main.pc \in {"done", "exit0", "exit1", "crashed"}

\* the operator runs the same command line again
Rerun ==
  /\ Ended
  /\ runs < MaxRuns
  /\ runs' = runs + 1
  /\ main' = MainStart
  /\ inst' = InstIdle
  /\ obs' = RunObs(obs.results, tgt, configFile)
  /\ UNCHANGED <<src, tgt, configFile, clock, args>>

\* ------------------------------------------------------------ initial states
\* directories with at most k entries, drawn from the given kinds of entry
DirsUpTo(kinds, k) ==
  {NoDir} \cup {MkDir(e) : e \in {f \in [Names -> kinds \cup {Absent}] :
                                   Cardinality({n \in Names : f[n] # Absent}) <= k}}
\* files, and subdirectories without a child of their own name
SrcKinds == {File(c) : c \in Contents} \cup {SubDir(0)}

Md1 == [stem |-> 1, ext |-> "md"]
OneFile(c) == MkDir([EmptyListing EXCEPT ![Md1] = File(c)])
NoLangDirs == [l \in Languages |-> NoDir]
SmallSource ==
  [commands |-> OneFile(1), shared |-> OneFile(1),
   lang |-> [NoLangDirs EXCEPT !["python"] = OneFile(2)],
   rules |-> EmptyDir, index |-> 1]
\* a target installed to before, with a customised command file
Installed(root) ==
  [FreshTarget(root) EXCEPT !.commands = OneFile(MaxContent), !.agents = EmptyDir,
                            !.rules = EmptyDir]
NoTargets == [a \in Agents |-> FreshTarget("missing")]
\* an agents or rules target: empty, with a customised file, with a subdirectory
Customised ==
  {EmptyDir, OneFile(MaxContent), MkDir([EmptyListing EXCEPT ![Md1] = SubDir(0)])}

\* one target, every source commands directory of up to two entries over
\* every commands target of up to one entry
InitCommands ==
  /\ \E c \in DirsUpTo(SrcKinds, 2) :
       src = [commands |-> c, shared |-> NoDir, lang |-> NoLangDirs,
              rules |-> NoDir, index |-> 0]
  /\ \E c \in DirsUpTo(SrcKinds, 1) :
       tgt = [NoTargets EXCEPT !["claude-code"] =
                [FreshTarget("rw") EXCEPT
                   !.commands = c,
                   !.agents = IF c.exists THEN EmptyDir ELSE NoDir,
                   !.rules = IF c.exists THEN EmptyDir ELSE NoDir]]
  /\ args = [language |-> "python", agent |-> "claude-code"]
  /\ configFile = NoConfigFile

\* one target, writable or not, with and without a backup made earlier in the
\* current second
InitBackup ==
  /\ src = [commands |-> OneFile(1), shared |-> NoDir, lang |-> NoLangDirs,
            rules |-> NoDir, index |-> 0]
  /\ \E root \in {"rw", "ro"}, c \in DirsUpTo(SrcKinds, 1), b \in {NoDir, OneFile(1)} :
       tgt = [NoTargets EXCEPT !["claude-code"] =
                [FreshTarget(root) EXCEPT
                   !.commands = c,
                   !.agents = IF c.exists THEN EmptyDir ELSE NoDir,
                   !.rules = IF c.exists THEN EmptyDir ELSE NoDir,
                   !.backups = [t \in 1..MaxClock |-> IF t = 1 THEN b ELSE NoDir]]]
  /\ args = [language |-> "python", agent |-> "claude-code"]
  /\ configFile = NoConfigFile

\* one target, every pair of shared and language agents directories of up to
\* one entry
InitAgents ==
  /\ \E s \in DirsUpTo(SrcKinds, 1), l \in DirsUpTo(SrcKinds, 1) :
       src = [commands |-> OneFile(1), shared |-> s,
              lang |-> [NoLangDirs EXCEPT !["python"] = l],
              rules |-> NoDir, index |-> 0]
  /\ \E a \in Customised :
       tgt = [NoTargets EXCEPT !["claude-code"] =
                [FreshTarget("rw") EXCEPT !.commands = EmptyDir, !.agents = a,
                                          !.rules = EmptyDir]]
  /\ args = [language |-> "python", agent |-> "claude-code"]
  /\ configFile = NoConfigFile

\* one target, every rules directory of up to one entry, every registry
InitRules ==
  /\ \E r \in DirsUpTo(SrcKinds, 1), x \in 0..MaxContent :
       src = [commands |-> OneFile(1), shared |-> NoDir, lang |-> NoLangDirs,
              rules |-> r, index |-> x]
  /\ \E r \in Customised, x \in {0, MaxContent} :
       tgt = [NoTargets EXCEPT !["opencode"] =
                [FreshTarget("rw") EXCEPT !.commands = EmptyDir, !.agents = EmptyDir,
                                          !.rules = r, !.index = x]]
  /\ args = [language |-> "python", agent |-> "opencode"]
  /\ configFile = NoConfigFile

\* all targets, each missing, fresh or installed to before, writable or not
InitMulti ==
  /\ \E c \in {NoDir, OneFile(1)} : src = [SmallSource EXCEPT !.commands = c]
  /\ tgt \in [Agents -> {FreshTarget("missing"), FreshTarget("rw"), FreshTarget("ro"),
                         Installed("rw"), Installed("ro")}]
  /\ args \in [language : {"python"}, agent : {"", "all"}]
  /\ configFile = NoConfigFile

\* every command line and settings file
InitCli ==
  /\ src = SmallSource
  /\ tgt \in {NoTargets, [NoTargets EXCEPT !["droid"] = FreshTarget("rw")]}
  /\ args \in [language : {"", "python", "typescript", "ruby"},
               agent : {"", "all", "droid", "cline"}]
  /\ configFile \in
       {[kind |-> k, language |-> "", agent |-> ""] : k \in ConfigKinds}
       \cup {ConfigObject(l, "all") : l \in {"javascript", "ruby"}}

\* the first invocation starts
InitRun ==
  /\ clock = 1
  /\ runs = 1
  /\ main = MainStart
  /\ inst = InstIdle
  /\ obs = RunObs(<<>>, tgt, configFile)

Init ==
  /\ InitCommands \/ InitBackup \/ InitAgents \/ InitRules \/ InitMulti \/ InitCli
  /\ InitRun

\* the initial states in which a target directory cannot be created or a
\* backup cannot be made, and every command line
InitFailing ==
  /\ InitBackup \/ InitMulti \/ InitCli
  /\ InitRun

Next ==
  \/ SelectLanguage \/ SelectAgent \/ CountFiles \/ Confirm
  \/ CallInstall \/ AfterInstall \/ SaveConfig \/ Summary
  \/ CheckSource \/ CreateDirectories \/ BackupExisting \/ CopyCommands
  \/ CopySharedAgents \/ CopyLanguageAgents \/ CopyRegistry \/ CopyRules
  \/ VerifyInstallation
  \/ Rerun

Spec == Init /\ [][Next]_vars

\* the program is one thread that runs until it ends: a step that can be
\* taken is taken
FairSpec == InitFailing /\ [][Next]_vars /\ WF_vars(Next)

\* --------------------------------------------------------------- properties
\* install_to_agent returned at its end (installer.py 195), not from the
\* source check (installer.py 107)
Completed == inst.pc = "returned" /\ inst.errors = <<>>
\* install_to_agent has copied the command files
AfterCopyCommands ==
  inst.pc \in {"copy_shared", "copy_lang", "copy_registry", "copy_rules", "verify"}
    \/ Completed
\* install_to_agent has passed the backup step
AfterBackup == inst.pc = "copy_commands" \/ AfterCopyCommands
\* install_to_agent is running or has just ended
InInstall == inst.pc # "idle"
\* the commands target held entries when install_to_agent began
HadCommands == obs.pre.commands.exists /\ Present(obs.pre.commands) # {}
\* the target of the current call
Target == tgt[inst.agent]

\* C1: whenever install_to_agent has got to copying files into a commands
\* target that held entries when the call began, a backup directory
\* commands.backup.<timestamp> that did not exist before the call exists, its
\* content is the content the commands directory had when the call began, and
\* that was still the content right before the command files were copied.
C1_BackupInvariant ==
  (AfterBackup /\ HadCommands) =>
    /\ inst.backup # 0
    /\ ~obs.pre.backups[inst.backup].exists
    /\ Target.backups[inst.backup] = obs.pre.commands
    /\ inst.pc = "copy_commands" => Target.commands = obs.pre.commands
    /\ AfterCopyCommands => obs.atCopy = Target.backups[inst.backup]

\* C1 witness: an installation over a non-empty commands target has returned,
\* has changed the commands directory, and the backup holds the old content
C1_Witness ==
  /\ Completed
  /\ HadCommands
  /\ inst.commands_installed > 0
  /\ Target.commands # obs.pre.commands
  /\ inst.backup # 0
  /\ Target.backups[inst.backup] = obs.pre.commands

\* the names and contents of the three target directories and the registry
Content(t) == <<t.commands.ent, t.agents.ent, t.rules.ent, t.index>>

\* C2: as long as no backup of a non-empty commands target was made, and so
\* after its copy failed, the installation of that target copies nothing: the
\* commands, agents and rules targets hold what they held when the call began,
\* and the call is before the copy steps or has ended without reaching them.
C2_NoOverwriteAfterFailedBackup ==
  (InInstall /\ HadCommands /\ inst.backup = 0) =>
    /\ Content(Target) = Content(obs.pre)
    /\ inst.commands_installed = 0 /\ inst.agents_installed = 0
    /\ inst.rules_installed = 0
    /\ \/ inst.pc \in {"check_source", "mkdir", "backup", "raised"}
       \/ inst.pc = "returned" /\ inst.errors # <<>>

\* C2 witness: the backup step raised over a non-empty commands target while
\* the source holds command files to copy
C2_Witness ==
  /\ inst.pc = "raised"
  /\ inst.raisedIn = "backup"
  /\ HadCommands
  /\ Copied(src.commands) # {}
  /\ Content(Target) = Content(obs.pre)

\* C3: when the commands target did not exist or held no entry when the call
\* began, the backup step returns None without raising and the installation
\* creates no backup directory.
C3_NoBackupWhenEmpty ==
  (InInstall /\ ~HadCommands) =>
    /\ inst.backup = 0
    /\ inst.raisedIn # "backup"
    /\ Target.backups = obs.pre.backups

\* C3 witness: an installation into an existing, empty commands target has
\* returned after copying command files, and no backup was made
C3_Witness ==
  /\ Completed
  /\ obs.pre.commands.exists
  /\ Present(obs.pre.commands) = {}
  /\ inst.commands_installed > 0
  /\ \A t \in 1..MaxClock : ~Target.backups[t].exists

\* the result of the call of install_to_agent that has just returned
LastResult == obs.results[Len(obs.results)].result
\* the agents a result was returned for
ResultAgents == {obs.results[i].agent : i \in DOMAIN obs.results}
\* the result returned for agent a
ResultOf(a) ==
  (CHOOSE i \in DOMAIN obs.results : obs.results[i].agent = a).result

\* C4: a target's fatal error (an exception in one of its steps) does not end
\* the run: the run is not aborted, and once it is over every selected target
\* has an InstallationResult, the failed target's with success = FALSE and its
\* error recorded.
C4_PartialFailureIsolation ==
  inst.raisedIn # "" =>
    /\ main.pc # "crashed"
    /\ Ended =>
         /\ \A i \in DOMAIN Selected : Selected[i] \in ResultAgents
         /\ ~ResultOf(inst.agent).success
         /\ ResultOf(inst.agent).errors # <<>>

\* C5: every fatal failure of a target (source commands directory missing,
\* backup failed, a target directory not created) ends install_to_agent with an
\* InstallationResult whose errors hold the failure and whose success is FALSE.
C5_FatalFailureRecorded ==
  (InInstall /\ (inst.raisedIn # "" \/ inst.errors # <<>>)) =>
    /\ inst.pc = "returned"
    /\ Len(obs.results) > 0
    /\ ~LastResult.success
    /\ LastResult.errors # <<>>

\* C6: in every InstallationResult returned, success is TRUE exactly when
\* errors is empty, which is exactly when the source commands directory
\* exists; a count mismatch found by the verification is a warning and leaves
\* success TRUE and errors empty.
C6_SuccessIffNoErrors ==
  /\ \A i \in DOMAIN obs.results :
       /\ obs.results[i].result.success <=> obs.results[i].result.errors = <<>>
       /\ obs.results[i].result.success <=> src.commands.exists
  /\ (inst.pc = "returned" /\ inst.warnings # {}) =>
       LastResult.success /\ LastResult.errors = <<>>

\* C6 witness: a call returned with a count mismatch and success = TRUE
C6_Witness ==
  /\ inst.pc = "returned"
  /\ inst.warnings # {}
  /\ LastResult.success
  /\ LastResult.errors = <<>>

\* C7: the source tree never changes during a run, so every completed
\* installation copied as many files per category as count_files counts: no
\* reconciliation warning.
C7_Reconciliation ==
  Completed =>
    /\ inst.warnings = {}
    /\ inst.commands_installed = count_files(src, inst.language).commands
    /\ inst.agents_installed =
         count_files(src, inst.language).shared + count_files(src, inst.language).lang
    /\ inst.rules_installed = count_files(src, inst.language).rules

\* the regular *.md files of a source category directory
CategoryFiles(d) == {n \in Names : n.ext = "md" /\ d.ent[n].kind = "file"}
\* every such file is a file of the target directory with the same content
AllInstalled(source_dir, target_dir) ==
  \A n \in CategoryFiles(source_dir) :
    target_dir.exists /\ target_dir.ent[n] = File(source_dir.ent[n].data)

\* C8: after an installation without fatal error every file of each source
\* category directory is in the corresponding target directory with the same
\* content.
C8_CopyCompleteness ==
  Completed =>
    /\ AllInstalled(src.commands, Target.commands)
    /\ AllInstalled(src.shared, Target.agents)
    /\ AllInstalled(LangAgentDir(src, inst.language), Target.agents)
    /\ AllInstalled(src.rules, Target.rules)

\* the target held no entry when the call began
EmptyTarget(t) ==
  /\ Present(t.commands) = {} /\ Present(t.agents) = {} /\ Present(t.rules) = {}
  /\ t.index = 0

\* C9: installing a source catalog with c command files, s shared agent
\* files, l language agent files and r rule files to an empty target returns
\* (c, s + l, r, success = TRUE, errors = <<>>), and a registry at the source
\* is in the agents target afterwards without being counted.
C9_CountsOnEmptyTarget ==
  (inst.pc = "returned" /\ src.commands.exists /\ EmptyTarget(obs.pre)) =>
    /\ LastResult =
         InstallationResult(
           Cardinality(CategoryFiles(src.commands)),
           Cardinality(CategoryFiles(src.shared))
             + Cardinality(CategoryFiles(LangAgentDir(src, inst.language))),
           Cardinality(CategoryFiles(src.rules)), TRUE, <<>>)
    /\ src.index # 0 => Target.index = src.index

\* C9 witness: one shared and one language agent and a registry were installed
\* to an empty target
C9_Witness ==
  /\ inst.pc = "returned"
  /\ EmptyTarget(obs.pre)
  /\ src.index # 0
  /\ Target.index = src.index
  /\ Cardinality(CategoryFiles(src.shared)) = 1
  /\ Cardinality(CategoryFiles(LangAgentDir(src, inst.language))) = 1
  /\ LastResult.agents_installed = 2
  /\ LastResult.success

\* C10: without a source commands directory install_to_agent returns
\* InstallationResult(0, 0, 0, FALSE, <<message>>) and leaves the filesystem
\* as it was: no target directory, no backup, no file.
C10_MissingSourceCommands ==
  (InInstall /\ inst.pc # "check_source" /\ ~src.commands.exists) =>
    /\ inst.pc = "returned"
    /\ LastResult = InstallationResult(0, 0, 0, FALSE, <<"Commands directory not found">>)
    /\ Target = obs.pre

\* C10 witness: the call returned the failure although the agents source
\* directories exist, and the target's root is still missing
C10_Witness ==
  /\ inst.pc = "returned"
  /\ ~src.commands.exists
  /\ src.shared.exists
  /\ src.index # 0
  /\ ~LastResult.success
  /\ ~Target.commands.exists

\* install_to_agent ended without a result or with a failure: Aborted
Aborted == inst.pc = "raised" \/ (inst.pc = "returned" /\ inst.errors # <<>>)

Counts(r) == <<r.commands_installed, r.agents_installed, r.rules_installed>>

\* C12: an installation to a writable target that the invocation before
\* installed to successfully, from the same source tree, ends Complete, leaves the commands,
\* agents and rules targets and the registry exactly as it found them, and
\* returns the counts the installation before returned.
C12_RerunIdempotent ==
  \A i \in DOMAIN obs.prev :
    (/\ obs.prev[i].agent = inst.agent
     /\ obs.prev[i].result.success
     /\ Target.root = "rw"
     /\ inst.pc \in {"returned", "raised"}) =>
      /\ Completed
      /\ Content(Target) = Content(obs.pre)
      /\ Counts(inst) = Counts(obs.prev[i].result)

\* C13: every installation that finds a non-empty commands target in a
\* writable agent directory, whatever the second its backup step falls in,
\* gets past the backup step with a backup directory that did not exist when
\* the call began, and every backup made earlier is still what it was.
C13_NewBackupEachRun ==
  (/\ InInstall
   /\ HadCommands
   /\ obs.pre.root = "rw"
   /\ src.commands.exists
   /\ inst.pc \notin {"check_source", "mkdir", "backup"}) =>
    /\ inst.backup # 0
    /\ ~obs.pre.backups[inst.backup].exists
    /\ Target.backups[inst.backup].exists
    /\ \A t \in 1..MaxClock :
         obs.pre.backups[t].exists => Target.backups[t] = obs.pre.backups[t]

\* main has its plan
Planned == main.pc \in {"confirm", "install", "installing", "summary", "done", "exit0"}

\* C14: the plan that count_files returned is what count_files returns when it
\* is called again at any later point of the run (as the verification does),
\* whatever has been installed to the targets meanwhile; a category whose
\* source directory is missing is counted 0 and the count step never ends the
\* program; the count step changes nothing on the filesystem.
C14_PlanningPure ==
  /\ [](Planned =>
          /\ main.plan = count_files(src, main.language)
          /\ ~src.commands.exists => main.plan.commands = 0
          /\ ~src.shared.exists => main.plan.shared = 0
          /\ ~LangAgentDir(src, main.language).exists => main.plan.lang = 0
          /\ ~src.rules.exists => main.plan.rules = 0)
  /\ [][main.pc = "count" =>
          /\ main'.pc = "confirm"
          /\ <<src, tgt, configFile>>' = <<src, tgt, configFile>>]_vars

\* C14 witness: an installation has changed its target and is Complete, the
\* plan counted commands, and it counted 0 for the missing rules directory
C14_Witness ==
  /\ Completed
  /\ Content(Target) # Content(obs.pre)
  /\ main.plan.commands > 0
  /\ ~src.rules.exists
  /\ main.plan.rules = 0

\* C15: whatever the settings file holds, the load_config that select_language
\* calls when no language argument is given returns None or a Config and does
\* not raise, and so no run ends in select_language, before a language is
\* chosen, with an exception.
C15_LoadNeverRaises ==
  (main.pc # "select_language" /\ args.language = "") =>
    /\ ~load_config(obs.cfg0).raised
    /\ ~(main.pc = "crashed" /\ main.language = "")

\* the command line is one that main refuses: an unsupported --language, an
\* --agent that is neither "all" nor a known agent, or no --agent and no
\* agent directory found when the invocation began
BadLanguageArg == args.language # "" /\ args.language \notin Languages
BadAgentArg == args.agent # "" /\ args.agent # "all" /\ args.agent \notin Agents
NothingDetected == args.agent = "" /\ detect_installed_agents(obs.tgt0) = <<>>
Refused == BadLanguageArg \/ BadAgentArg \/ NothingDetected

\* C16: a run that installed and returned from main, and a run the operator
\* cancelled, end with exit code 0; a run with a refused command line ends
\* with exit code 1 and only such a run ends in sys.exit(1); in a refused run
\* and in a cancelled one the targets and the settings file are, at every
\* point, what they were when the invocation began.
C16_ExitCodes ==
  /\ main.pc \in {"done", "exit0"} => ExitCode = 0 /\ ~Refused
  /\ (Ended /\ Refused) => ExitCode = 1
  /\ main.pc = "exit1" => Refused
  /\ (Refused \/ main.pc = "exit0") => tgt = obs.tgt0 /\ configFile = obs.cfg0

\* C16 witness: the language came from the settings file, the agent argument
\* is unknown, and the run has ended in sys.exit(1)
C16_Witness ==
  /\ main.pc = "exit1"
  /\ args.language = ""
  /\ main.language # ""
  /\ BadAgentArg

\* the operator has confirmed
Confirmed == main.pc \in {"install", "installing", "summary", "done"}

\* C17: after the confirmation the results returned so far are those of the
\* selected targets in list order, one call at a time; no run in which no
\* installation raised ends with an exception after a language was chosen; a
\* run that is done has a result for every selected target and has saved the
\* selected language and agent. This for every accepted selection, "all" with
\* an empty list of detected agents included.
C17_SequentialThenSummary ==
  /\ Confirmed =>
       /\ Len(obs.results) <= Len(Selected)
       /\ \A k \in DOMAIN obs.results : obs.results[k].agent = Selected[k]
       /\ Len(obs.results) \in {main.i - 1, main.i}
  /\ ~(main.pc = "crashed" /\ main.language # "" /\ inst.pc # "raised")
  /\ main.pc = "done" =>
       /\ Len(obs.results) = Len(Selected)
       /\ configFile = save_config(main.language, main.agent)

\* C18: the language select_language returned, from the argument, the
\* settings file or the default, and the language install_to_agent was called
\* with, are members of SUPPORTED_LANGUAGES.
C18_LanguageSupported ==
  /\ main.language # "" => main.language \in Languages
  /\ InInstall => inst.language \in Languages

\* target directory after keeps every name of target directory before, and
\* every entry of before whose name is not among the copied names
Kept(before, after, copied) ==
  /\ before.exists => after.exists
  /\ Present(before) \subseteq Present(after)
  /\ \A n \in Present(before) \ copied : after.ent[n] = before.ent[n]

\* C19: at every point of an installation each of the three target
\* directories holds every name it held when the call began, with the entry
\* unchanged unless a source file of that name is copied to that directory;
\* the registry of the agents target changes only to the source's registry;
\* every backup that existed is still what it was; and no step of the program
\* changes the source tree or, while install_to_agent runs, the directories of
\* another agent.
C19_OnlyAddsOrOverwrites ==
  /\ [](InInstall =>
          /\ Kept(obs.pre.commands, Target.commands, Copied(src.commands))
          /\ Kept(obs.pre.agents, Target.agents,
                  Copied(src.shared) \cup Copied(LangAgentDir(src, inst.language)))
          /\ Kept(obs.pre.rules, Target.rules, Copied(src.rules))
          /\ Target.index \in {obs.pre.index, src.index}
          /\ \A t \in 1..MaxClock :
               obs.pre.backups[t].exists => Target.backups[t] = obs.pre.backups[t])
  /\ [][/\ src' = src
        /\ \A a \in Agents : (InInstall /\ a # inst.agent) => tgt'[a] = tgt[a]]_vars

\* C19 witness: a Complete installation copied an agent file into an agents
\* target that keeps its customised file of another name, or copied files
\* next to entries of the commands target that it left as they were
C19_Witness ==
  /\ Completed
  /\ inst.commands_installed + inst.agents_installed + inst.rules_installed > 0
  /\ \E d \in {"commands", "agents", "rules"}, n \in Names :
       /\ Present(obs.pre[d]) # {}
       /\ n \in Present(obs.pre[d])
       /\ Target[d].ent[n] = obs.pre[d].ent[n]
       /\ Present(Target[d]) # Present(obs.pre[d])

====
